---- MODULE Spec2Model ----
(***************************************************************************)
(* State-machine model of the multi-agent orchestrator:                    *)
(*   src/src/agents/orchestrator.py   singleton system, invoke_agent, reset *)
(*   src/src/agents/base.py           AgentState (channels and reducers)    *)
(*   src/src/agents/document_agent.py document_agent_node, get_document_... *)
(*   src/src/agents/video_agent.py    video_agent_node (placeholder)        *)
(*   src/api/routers/agent.py         /chat, /chat/stream, /reset           *)
(*   src/api/routers/documents.py     /ocr, /tables and their temp files    *)
(*   src/src/auth/dependencies.py     require_auth, authenticate_user       *)
(* The supervisor node and the graph's edges (build_supervisor_graph) are   *)
(* not part of the sources; they are modelled from the specification.       *)
(***************************************************************************)
EXTENDS Integers, Sequences, FiniteSets, TLC

\* ---------------------------------------------------------------- bounds
NumThreads == 2
MaxCalls == 2
MaxResets == 2
NumRequests == 2

\* ------------------------------------------------------------- constants
None == 0
Threads == 1..NumThreads
ThreadIds == {"t1", "t2"}
UserTexts == {"hello", ""}
Requests == 1..NumRequests

\* AGENT_NAMES = Literal["document_agent", "video_agent", "FINISH"]
AGENT_NAMES == {"document_agent", "video_agent", "FINISH"}
Specialists == <<"document_agent", "video_agent">>
DefaultSpecialist == Specialists[1]

\* What the classifier's inference call can answer: a registered tag, FINISH,
\* or text naming no registered specialist.
ClassifierOutputs == AGENT_NAMES \cup {"other"}

VARIABLES
    multi_agent_system,  \* _multi_agent_system: None or the compiled system
    built,               \* number of create_multi_agent_system() runs
    store,               \* per system: thread_id -> checkpointed AgentState
    document_agent,      \* _document_agent: None or the internal agent
    doc_built,           \* number of create_agent() runs for the document agent
    calls,               \* number of invoke_agent calls started
    resets,              \* number of reset_multi_agent_system calls
    resetAt,             \* value of calls at the last reset
    builtAtReset,        \* value of built at the last reset
    memory,              \* per system: the use_memory it was created with
    pc,                  \* per thread: position inside invoke_agent
    agent,               \* per thread: local `agent` of invoke_agent
    docRef,              \* per thread: local `agent` of document_agent_node
    thread_id,           \* per thread: argument thread_id
    message,             \* per thread: argument message
    callNo,              \* per thread: ordinal of the call in progress
    st,                  \* per thread: channel values of the running graph
    loaded,              \* per thread: checkpoint the run started from
    result,              \* per thread: what invoke_agent returned or raised
    trace,               \* per thread: classifier answer, executor runs, outcome
    streaming,           \* per thread: the call is a /chat/stream request
    events,              \* per thread: events the stream has yielded
    use_memory,          \* per thread: argument use_memory of get_multi_agent_system
    req,                 \* per document request: endpoint, outcome, response
    files,               \* temporary files that exist (named by their request)
    auth                 \* settings, the last authentication call and its result

shared == <<multi_agent_system, built, store, document_agent, doc_built,
            calls, resets, resetAt, builtAtReset, memory>>
locals == <<pc, agent, docRef, thread_id, message, callNo, st, loaded, result, trace,
            streaming, events, use_memory>>
side == <<req, files, auth>>
vars == <<multi_agent_system, built, store, document_agent, doc_built,
          calls, resets, resetAt, builtAtReset, memory,
          pc, agent, docRef, thread_id, message, callNo, st, loaded, result, trace,
          streaming, events, use_memory, req, files, auth>>

\* ------------------------------------------------------------ AgentState
EmptyContext == [k \in {} |-> ""]

\* A thread's channels before any write: no messages, nothing else set.
FreshState ==
    [messages |-> <<>>, next_agent |-> "", current_agent |-> "",
     task_type |-> "", context |-> EmptyContext]

HumanMessage(content, call) == [role |-> "user", content |-> content, id |-> 2 * call - 1]
AIMessage(content, call) == [role |-> "assistant", content |-> content, id |-> 2 * call]

\* messages: Annotated[Sequence[BaseMessage], add_messages]
AddMessagesOverwrite(left, right) == right
AddMessages(left, right) == left \o right

\* A write of a full AgentState dict to the channels: messages go through the
\* add_messages reducer, every other key has no reducer and is replaced.
ApplyUpdate(channels, update) ==
    [messages |-> AddMessages(channels.messages, update.messages),
     next_agent |-> update.next_agent,
     current_agent |-> update.current_agent,
     task_type |-> update.task_type,
     context |-> update.context]

\* {**context, key: value}
ReplaceContext(context, key, value) == [k \in {key} |-> value]
MergeContext(context, key, value) ==
    [k \in (DOMAIN context) \cup {key} |-> IF k = key THEN value ELSE context[k]]

\* invoke_agent: initial_state
InitialState(text, call) ==
    [messages |-> <<HumanMessage(text, call)>>,
     next_agent |-> "",
     current_agent |-> "",
     task_type |-> "unknown",
     context |-> EmptyContext]

Last(s) == s[Len(s)]

NoResult == [kind |-> "none", value |-> ""]
Raised(what) == [kind |-> "error", value |-> what]

\* invoke_agent: extract the response string from the result
ExtractResponse(state) ==
    IF state.messages # <<>>
    THEN [kind |-> "response", value |-> Last(state.messages).content]
    ELSE [kind |-> "response", value |-> "No response from agent"]

NoTrace == [raw |-> "", execs |-> 0, outcome |-> ""]

\* get_multi_agent_system returned (a direct call, outside invoke_agent).
Got == [kind |-> "system", value |-> ""]

\* A document request that has not been received.
NoRequest ==
    [state |-> "none", endpoint |-> "", status |-> 0,
     temp_file |-> FALSE, background |-> FALSE]

\* Settings not loaded, no authentication call made.
NoAuth ==
    [loaded |-> FALSE, AUTH_ENABLED |-> FALSE, API_KEY |-> "",
     ADMIN_PASSWORD_HASH |-> "", call |-> "", path |-> "", token |-> "",
     api_key |-> "", username |-> "", password |-> "", status |-> 0, user |-> ""]

Init ==
    /\ multi_agent_system = None
    /\ built = 0
    /\ store = <<>>
    /\ document_agent = None
    /\ doc_built = 0
    /\ calls = 0
    /\ resets = 0
    /\ resetAt = 0
    /\ builtAtReset = 0
    /\ pc = [t \in Threads |-> "idle"]
    /\ agent = [t \in Threads |-> None]
    /\ docRef = [t \in Threads |-> None]
    /\ thread_id = [t \in Threads |-> "t1"]
    /\ message = [t \in Threads |-> "hello"]
    /\ callNo = [t \in Threads |-> 0]
    /\ st = [t \in Threads |-> FreshState]
    /\ loaded = [t \in Threads |-> FreshState]
    /\ result = [t \in Threads |-> NoResult]
    /\ trace = [t \in Threads |-> NoTrace]
    /\ streaming = [t \in Threads |-> FALSE]
    /\ events = [t \in Threads |-> <<>>]
    /\ memory = <<>>
    /\ use_memory = [t \in Threads |-> TRUE]
    /\ req = [r \in Requests |-> NoRequest]
    /\ files = {}
    /\ auth = NoAuth

\* ------------------------------------------------- supervisor (classifier)
\* The routing decision for a classifier answer: a registered tag or FINISH is
\* kept, anything else falls back to the default specialist.
NormalizeToFinish(raw) == IF raw \in AGENT_NAMES THEN raw ELSE "FINISH"
NormalizeKeepsRaw(raw) == raw
Normalize(raw) == IF raw \in AGENT_NAMES THEN raw ELSE DefaultSpecialist

TaskKind(raw) ==
    CASE raw = "document_agent" -> "document"
      [] raw = "video_agent" -> "video"
      [] OTHER -> "general"

\* The supervisor node's write: only the routing fields, no message.
SupervisorUpdate(state, raw) ==
    [messages |-> <<>>,
     next_agent |-> Normalize(raw),
     current_agent |-> "supervisor",
     task_type |-> TaskKind(raw),
     context |-> state.context]

\* Edges of the graph: supervisor -> specialist | END, specialist -> END.
RouteAfterSupervisor(state) ==
    IF state.next_agent = "FINISH" THEN "END" ELSE state.next_agent
RouteBackToSupervisor(node) == "supervisor"
RouteAfterSpecialist(node) == "END"

\* ------------------------------------------------------------ specialists
DocumentOutcomes == {"ai", "no_ai", "exception"}

\* document_agent_node after get_document_agent(): the dict it returns, or the
\* exception that leaves it.
DocumentAgentNodeUncaught(state, outcome, call) ==
    [raised |-> (outcome = "exception"),
     update |-> [state EXCEPT !.messages = <<>>]]
DocumentAgentNodeNoTag(state, outcome, call) ==
    [raised |-> FALSE,
     update |-> [state EXCEPT !.messages = <<AIMessage("document answer", call)>>]]
DocumentAgentNodeHijacks(state, outcome, call) ==
    [raised |-> FALSE,
     update |-> [state EXCEPT
         !.messages = <<AIMessage("document answer", call)>>,
         !.current_agent = "document_agent",
         !.next_agent = "FINISH"]]
DocumentAgentNodeAllMessages(state, outcome, call) ==
    [raised |-> FALSE,
     update |-> [state EXCEPT
         !.messages = <<AIMessage("tool call", call), AIMessage("document answer", call)>>,
         !.current_agent = "document_agent"]]
DocumentAgentNode(state, outcome, call) ==
    IF state.messages = <<>>
    THEN [raised |-> FALSE,
          update |-> [state EXCEPT
              !.messages = <<AIMessage("I'm the Document Intelligence Agent.", call)>>,
              !.current_agent = "document_agent"]]
    ELSE IF outcome = "exception"
    THEN [raised |-> FALSE,
          update |-> [state EXCEPT
              !.messages = <<AIMessage("Document processing error", call)>>,
              !.current_agent = "document_agent"]]
    ELSE LET final_response ==
                 IF outcome = "ai"
                 THEN AIMessage("document answer", call)
                 ELSE AIMessage("Document processing completed.", call)
         IN [raised |-> FALSE,
             update |-> [state EXCEPT
                 !.messages = <<final_response>>,
                 !.current_agent = "document_agent",
                 !.context = MergeContext(state.context, "document_result",
                                          final_response.content)]]

\* document_agent_node when get_document_llm finds no API key:
\* get_document_agent() is called before the try block, so the ValueError
\* leaves the node.
DocumentAgentNodeNoKeyCaught(state, call) ==
    [raised |-> FALSE,
     update |-> [state EXCEPT
         !.messages = <<AIMessage("Document processing error", call)>>,
         !.current_agent = "document_agent"]]
DocumentAgentNodeNoKey(state, call) ==
    [raised |-> TRUE, update |-> [state EXCEPT !.messages = <<>>]]

\* video_agent_node: the placeholder response quotes the request and the
\* provider status.
VideoAgentNodeFixed(state, groq_available, call) ==
    [state EXCEPT
        !.messages = <<AIMessage("Video Agent - Phase 2", call)>>,
        !.current_agent = "video_agent",
        !.context = MergeContext(state.context, "video_result",
                                 "Phase 2 - Coming Soon")]
VideoAgentNode(state, groq_available, call) ==
    LET user_request ==
            IF state.messages # <<>> THEN Last(state.messages).content ELSE ""
        provider_status ==
            IF groq_available THEN "Groq Llama 3.2 Vision (~50ms)" ELSE "GPT-4o (fallback)"
    IN [state EXCEPT
           !.messages = <<AIMessage("Video Agent - Phase 2 > " \o user_request
                                    \o " | " \o provider_status, call)>>,
           !.current_agent = "video_agent",
           !.context = MergeContext(state.context, "video_result",
                                    "Phase 2 - Coming Soon")]

\* ------------------------------------------------------------- streaming
Event(type, data) == [type |-> type, data |-> data]
TerminalTypes == {"done", "error"}

SelectContent(messages) ==
    SelectSeq(messages, LAMBDA msg : msg.content # "")
MessageEvents(messages) ==
    [i \in DOMAIN SelectContent(messages) |->
        Event("message", SelectContent(messages)[i].content)]

\* generate(): what the loop body yields for one value of agent.stream(...,
\* stream_mode="values"): the routing event when current_agent is set, then a
\* message event for every message of the value that has content.
ValueEvents(value) ==
    (IF value.current_agent # ""
     THEN <<Event("routing", value.current_agent)>> ELSE <<>>)
    \o MessageEvents(value.messages)

\* generate(): how the stream ends: the done event after the loop, or the
\* error event of the except clause.
StreamEndAlsoDone(raised) ==
    IF raised THEN <<Event("error", ""), Event("done", "")>> ELSE <<Event("done", "")>>
StreamEnd(raised) ==
    IF raised THEN <<Event("error", "")>> ELSE <<Event("done", "")>>

\* ---------------------------------------------------------------- actions
InFlight(t) == pc[t] # "idle"

\* What one step of thread t adds to its stream: the value of the graph step
\* that completed, and the end of the stream when the run has ended.  Nothing
\* for a call that is not a /chat/stream request.
Yield(t) ==
    /\ UNCHANGED <<use_memory, side>>
    /\ streaming' = streaming
    /\ events' = [events EXCEPT ![t] =
           IF ~streaming[t] THEN @
           ELSE @ \o (IF st'[t] # st[t] THEN ValueEvents(st'[t]) ELSE <<>>)
                  \o (IF pc'[t] = "done"
                      THEN StreamEnd(result'[t].kind = "error") ELSE <<>>)]

\* reset_multi_agent_system: the value the global is set to.
ResetKeepsSystem == multi_agent_system
ResetValue == None

\* get_multi_agent_system: if _multi_agent_system is None (the argument plays
\* no part in the test).
NeedsCreateOnChange(system, arg) ==
    system = None \/ memory[system] # arg
NeedsCreate(system, arg) == system = None

\* A call starts: the arguments are bound and get_multi_agent_system tests the
\* global.
Begin(t, text, id, stream) ==
    /\ ~InFlight(t)
    /\ calls < MaxCalls
    /\ calls' = calls + 1
    /\ callNo' = [callNo EXCEPT ![t] = calls + 1]
    /\ message' = [message EXCEPT ![t] = text]
    /\ thread_id' = [thread_id EXCEPT ![t] = id]
    /\ st' = [st EXCEPT ![t] = FreshState]
    /\ loaded' = [loaded EXCEPT ![t] = FreshState]
    /\ result' = [result EXCEPT ![t] = NoResult]
    /\ trace' = [trace EXCEPT ![t] = NoTrace]
    /\ agent' = [agent EXCEPT ![t] = None]
    /\ docRef' = [docRef EXCEPT ![t] = None]
    /\ pc' = [pc EXCEPT ![t] =
                 IF NeedsCreate(multi_agent_system, TRUE)
                 THEN "create_multi_agent_system" ELSE "return_system"]
    /\ streaming' = [streaming EXCEPT ![t] = stream]
    /\ events' = [events EXCEPT ![t] = <<>>]
    /\ use_memory' = [use_memory EXCEPT ![t] = TRUE]
    /\ UNCHANGED side
    /\ UNCHANGED <<multi_agent_system, built, store, document_agent, doc_built,
                   resets, resetAt, builtAtReset, memory>>

\* invoke_agent(message, thread_id) up to the test of get_multi_agent_system.
InvokeAgent(t, text, id) == Begin(t, text, id, FALSE)

\* stream_agent_response(request) up to the test of get_multi_agent_system.
StreamAgentResponse(t, text, id) == Begin(t, text, id, TRUE)

\* get_multi_agent_system(use_memory) called directly, up to its test.
GetMultiAgentSystem(t, arg) ==
    /\ ~InFlight(t)
    /\ use_memory' = [use_memory EXCEPT ![t] = arg]
    /\ pc' = [pc EXCEPT ![t] =
                 IF NeedsCreate(multi_agent_system, arg)
                 THEN "create_multi_agent_system" ELSE "return_system"]
    /\ UNCHANGED <<shared, agent, docRef, thread_id, message, callNo, st, loaded,
                   result, trace, streaming, events, side>>

\* _multi_agent_system = create_multi_agent_system(use_memory): a new graph
\* with its own, empty, checkpointer.
CreateMultiAgentSystem(t) ==
    /\ pc[t] = "create_multi_agent_system"
    /\ built' = built + 1
    /\ store' = Append(store, [id \in ThreadIds |-> FreshState])
    /\ multi_agent_system' = built + 1
    /\ memory' = Append(memory, use_memory[t])
    /\ pc' = [pc EXCEPT ![t] = "return_system"]
    /\ UNCHANGED <<document_agent, doc_built, calls, resets, resetAt, builtAtReset,
                   agent, docRef, thread_id, message, callNo, st, loaded, result, trace>>
    /\ Yield(t)

\* return _multi_agent_system; a direct caller has the system, invoke_agent
\* goes on, and calling invoke on None raises.
ReturnSystem(t) ==
    /\ pc[t] = "return_system"
    /\ agent' = [agent EXCEPT ![t] = multi_agent_system]
    /\ IF callNo[t] = 0
       THEN /\ result' = [result EXCEPT ![t] = Got]
            /\ pc' = [pc EXCEPT ![t] = "done"]
       ELSE IF multi_agent_system = None
       THEN /\ result' = [result EXCEPT ![t] = Raised("AttributeError")]
            /\ pc' = [pc EXCEPT ![t] = "done"]
       ELSE /\ result' = result
            /\ pc' = [pc EXCEPT ![t] = "agent_invoke"]
    /\ UNCHANGED <<shared, docRef, thread_id, message, callNo, st, loaded, trace>>
    /\ Yield(t)

\* agent.invoke(initial_state, thread_id): the thread's checkpoint is read, the
\* input is written to the channels and the result is checkpointed.
GraphInput(t) ==
    /\ pc[t] = "agent_invoke"
    /\ LET prior == store[agent[t]][thread_id[t]]
           next == ApplyUpdate(prior, InitialState(message[t], callNo[t]))
       IN /\ loaded' = [loaded EXCEPT ![t] = prior]
          /\ st' = [st EXCEPT ![t] = next]
          /\ store' = [store EXCEPT ![agent[t]][thread_id[t]] = next]
    /\ pc' = [pc EXCEPT ![t] = "supervisor"]
    /\ UNCHANGED <<multi_agent_system, built, document_agent, doc_built, calls,
                   resets, resetAt, builtAtReset, memory, agent, docRef, thread_id, message, callNo,
                   result, trace>>
    /\ Yield(t)

\* Supervisor node: the classifier answers and the routing fields are written.
SupervisorNode(t) ==
    /\ pc[t] = "supervisor"
    /\ \E raw \in ClassifierOutputs :
         LET next == ApplyUpdate(st[t], SupervisorUpdate(st[t], raw))
             to == RouteAfterSupervisor(next)
         IN /\ st' = [st EXCEPT ![t] = next]
            /\ store' = [store EXCEPT ![agent[t]][thread_id[t]] = next]
            /\ trace' = [trace EXCEPT ![t].raw = raw]
            /\ IF to = "END"
               THEN /\ pc' = [pc EXCEPT ![t] = "done"]
                    /\ result' = [result EXCEPT ![t] = ExtractResponse(next)]
               ELSE /\ pc' = [pc EXCEPT ![t] = to]
                    /\ result' = result
    /\ UNCHANGED <<multi_agent_system, built, document_agent, doc_built, calls,
                   resets, resetAt, builtAtReset, memory, agent, docRef, thread_id, message, callNo, loaded>>
    /\ Yield(t)

\* Supervisor node: the classifier's inference call fails; the error leaves
\* agent.invoke and invoke_agent.
ClassifierUnavailable(t) ==
    /\ pc[t] = "supervisor"
    /\ result' = [result EXCEPT ![t] = Raised("ClassifierUnavailable")]
    /\ trace' = [trace EXCEPT ![t].raw = "ClassifierUnavailable"]
    /\ pc' = [pc EXCEPT ![t] = "done"]
    /\ UNCHANGED <<shared, agent, docRef, thread_id, message, callNo, st, loaded>>
    /\ Yield(t)

\* document_agent_node: get_document_agent(), the test of the global.
GetDocumentAgent(t) ==
    /\ pc[t] = "document_agent"
    /\ trace' = [trace EXCEPT ![t].execs = @ + 1]
    /\ IF document_agent = None
       THEN /\ pc' = [pc EXCEPT ![t] = "create_document_agent"]
            /\ docRef' = docRef
       ELSE /\ pc' = [pc EXCEPT ![t] = "document_invoke"]
            /\ docRef' = [docRef EXCEPT ![t] = document_agent]
    /\ UNCHANGED <<shared, agent, thread_id, message, callNo, st, loaded, result>>
    /\ Yield(t)

\* get_document_agent: get_document_llm() and create_agent(); without an API
\* key get_document_llm raises ValueError, which leaves the node and the graph.
CreateDocumentAgent(t) ==
    /\ pc[t] = "create_document_agent"
    /\ doc_built' = doc_built + 1
    /\ document_agent' = doc_built + 1
    /\ docRef' = [docRef EXCEPT ![t] = doc_built + 1]
    /\ pc' = [pc EXCEPT ![t] = "document_invoke"]
    /\ UNCHANGED <<multi_agent_system, built, store, calls, resets, resetAt, builtAtReset, memory,
                   agent, thread_id, message, callNo, st, loaded, result, trace>>
    /\ Yield(t)

\* What a specialist's return does to the run: its dict is written to the
\* channels and checkpointed, the graph follows the edge out of the node.
FinishNode(t, node, update) ==
    LET next == ApplyUpdate(st[t], update)
        to == RouteAfterSpecialist(node)
    IN /\ st' = [st EXCEPT ![t] = next]
       /\ store' = [store EXCEPT ![agent[t]][thread_id[t]] = next]
       /\ IF to = "END"
          THEN /\ pc' = [pc EXCEPT ![t] = "done"]
               /\ result' = [result EXCEPT ![t] = ExtractResponse(next)]
          ELSE /\ pc' = [pc EXCEPT ![t] = to]
               /\ result' = result

\* get_document_agent when get_document_llm raises: the assignment to
\* _document_agent is not reached, the global keeps its value.
CachedFailure(slot) == -1
SlotAfterFailure(slot) == slot

\* get_document_llm raises ValueError("No LLM API key configured").
NoLLMKey(t) ==
    /\ pc[t] = "create_document_agent"
    /\ document_agent' = SlotAfterFailure(document_agent)
    /\ LET r == DocumentAgentNodeNoKey(st[t], callNo[t])
       IN /\ trace' = [trace EXCEPT ![t].outcome = "no_llm_key"]
          /\ IF r.raised
             THEN /\ result' = [result EXCEPT ![t] = Raised("ValueError")]
                  /\ pc' = [pc EXCEPT ![t] = "done"]
                  /\ UNCHANGED <<st, store>>
             ELSE FinishNode(t, "document_agent", r.update)
    /\ UNCHANGED <<multi_agent_system, built, doc_built, calls,
                   resets, resetAt, builtAtReset, memory, agent, docRef, thread_id, message,
                   callNo, loaded>>
    /\ Yield(t)

\* document_agent_node: the internal agent runs on the messages.
DocumentAgentInvoke(t) ==
    /\ pc[t] = "document_invoke"
    /\ \E outcome \in DocumentOutcomes :
         LET r == DocumentAgentNode(st[t], outcome, callNo[t])
         IN /\ trace' = [trace EXCEPT ![t].outcome = outcome]
            /\ IF r.raised
               THEN /\ result' = [result EXCEPT ![t] = Raised("Exception")]
                    /\ pc' = [pc EXCEPT ![t] = "done"]
                    /\ UNCHANGED <<st, store>>
               ELSE FinishNode(t, "document_agent", r.update)
    /\ UNCHANGED <<multi_agent_system, built, document_agent, doc_built, calls,
                   resets, resetAt, builtAtReset, memory, agent, docRef, thread_id, message, callNo, loaded>>
    /\ Yield(t)

\* video_agent_node
VideoAgent(t) ==
    /\ pc[t] = "video_agent"
    /\ \E groq_available \in BOOLEAN :
         FinishNode(t, "video_agent", VideoAgentNode(st[t], groq_available, callNo[t]))
    /\ trace' = [trace EXCEPT ![t].execs = @ + 1, ![t].outcome = "placeholder"]
    /\ UNCHANGED <<multi_agent_system, built, document_agent, doc_built, calls,
                   resets, resetAt, builtAtReset, memory, agent, docRef, thread_id, message, callNo, loaded>>
    /\ Yield(t)

\* invoke_agent has returned or raised: its frame is discarded.
Return(t) ==
    /\ pc[t] = "done"
    /\ pc' = [pc EXCEPT ![t] = "idle"]
    /\ agent' = [agent EXCEPT ![t] = None]
    /\ docRef' = [docRef EXCEPT ![t] = None]
    /\ thread_id' = [thread_id EXCEPT ![t] = "t1"]
    /\ message' = [message EXCEPT ![t] = "hello"]
    /\ callNo' = [callNo EXCEPT ![t] = 0]
    /\ st' = [st EXCEPT ![t] = FreshState]
    /\ loaded' = [loaded EXCEPT ![t] = FreshState]
    /\ result' = [result EXCEPT ![t] = NoResult]
    /\ trace' = [trace EXCEPT ![t] = NoTrace]
    /\ streaming' = [streaming EXCEPT ![t] = FALSE]
    /\ events' = [events EXCEPT ![t] = <<>>]
    /\ use_memory' = [use_memory EXCEPT ![t] = TRUE]
    /\ UNCHANGED <<shared, side>>

\* reset_multi_agent_system (POST /reset)
ResetMultiAgentSystem ==
    /\ resets < MaxResets
    /\ multi_agent_system' = ResetValue
    /\ resets' = resets + 1
    /\ resetAt' = calls
    /\ builtAtReset' = built
    /\ UNCHANGED <<built, store, document_agent, doc_built, calls, memory, locals, side>>

Step(t) ==
    \/ \E text \in UserTexts, id \in ThreadIds : InvokeAgent(t, text, id)
    \/ CreateMultiAgentSystem(t)
    \/ ReturnSystem(t)
    \/ GraphInput(t)
    \/ SupervisorNode(t)
    \/ ClassifierUnavailable(t)
    \/ GetDocumentAgent(t)
    \/ CreateDocumentAgent(t)
    \/ NoLLMKey(t)
    \/ DocumentAgentInvoke(t)
    \/ VideoAgent(t)
    \/ Return(t)

\* Any number of threads inside invoke_agent at once.
Next == (\E t \in Threads : Step(t)) \/ ResetMultiAgentSystem

Spec == Init /\ [][Next]_vars

\* One caller, one call at a time: a call starts only when no call is in
\* flight, and always from the first thread.
SeqStep(t) ==
    \/ /\ \A u \in Threads : ~InFlight(u) /\ t <= u
       /\ \E text \in UserTexts, id \in ThreadIds : InvokeAgent(t, text, id)
    \/ CreateMultiAgentSystem(t)
    \/ ReturnSystem(t)
    \/ GraphInput(t)
    \/ SupervisorNode(t)
    \/ ClassifierUnavailable(t)
    \/ GetDocumentAgent(t)
    \/ CreateDocumentAgent(t)
    \/ NoLLMKey(t)
    \/ DocumentAgentInvoke(t)
    \/ VideoAgent(t)
    \/ Return(t)

NextSeq ==
    \/ \E t \in Threads : SeqStep(t)
    \/ (\A u \in Threads : ~InFlight(u)) /\ ResetMultiAgentSystem

SpecSeq == Init /\ [][NextSeq]_vars

\* One caller of /chat/stream, one request at a time.
StreamStep(t) ==
    \/ /\ \A u \in Threads : ~InFlight(u) /\ t <= u
       /\ \E text \in UserTexts, id \in ThreadIds : StreamAgentResponse(t, text, id)
    \/ CreateMultiAgentSystem(t)
    \/ ReturnSystem(t)
    \/ GraphInput(t)
    \/ SupervisorNode(t)
    \/ ClassifierUnavailable(t)
    \/ GetDocumentAgent(t)
    \/ CreateDocumentAgent(t)
    \/ NoLLMKey(t)
    \/ DocumentAgentInvoke(t)
    \/ VideoAgent(t)
    \/ Return(t)

NextStream ==
    \/ \E t \in Threads : StreamStep(t)
    \/ (\A u \in Threads : ~InFlight(u)) /\ ResetMultiAgentSystem

SpecStream == Init /\ [][NextStream]_vars

\* The steps of a call that the process takes by itself.  The answer of the
\* document agent's model and tools (DocumentAgentInvoke) is not among them:
\* agent.invoke({"messages": messages}) is called without a timeout.
OwnStep(t) ==
    \/ CreateMultiAgentSystem(t)
    \/ ReturnSystem(t)
    \/ GraphInput(t)
    \/ SupervisorNode(t)
    \/ ClassifierUnavailable(t)
    \/ GetDocumentAgent(t)
    \/ CreateDocumentAgent(t)
    \/ NoLLMKey(t)
    \/ VideoAgent(t)
    \/ Return(t)

SpecLive == Init /\ [][NextSeq]_vars /\ \A t \in Threads : WF_vars(OwnStep(t))

\* One caller of get_multi_agent_system(use_memory), one call at a time.
GetStep(t) ==
    \/ /\ \A u \in Threads : ~InFlight(u) /\ t <= u
       /\ \E arg \in BOOLEAN : GetMultiAgentSystem(t, arg)
    \/ CreateMultiAgentSystem(t)
    \/ ReturnSystem(t)
    \/ Return(t)

NextGet ==
    \/ \E t \in Threads : GetStep(t)
    \/ (\A u \in Threads : ~InFlight(u)) /\ ResetMultiAgentSystem

SpecGet == Init /\ [][NextGet]_vars

\* ------------------------------------------------- a specialist node alone
\* The states a specialist node can be called with: any transcript (none
\* included), any task kind, any results of earlier specialists in context.
NodeMessages ==
    {<<>>,
     <<HumanMessage("hello", 2)>>,
     <<HumanMessage("hello", 1), AIMessage("document answer", 1),
       HumanMessage("hello", 2)>>}
NodeContexts ==
    {[k \in K |-> "earlier"] : K \in SUBSET {"document_result", "video_result"}}
NodeInputs(node) ==
    [messages : NodeMessages, next_agent : {node}, current_agent : {"supervisor"},
     task_type : {"document", "video", "general"}, context : NodeContexts]

\* Thread 1 is about to run the body of one specialist node on such a state.
InitNode ==
    /\ multi_agent_system = 1
    /\ built = 1
    /\ memory = <<TRUE>>
    /\ document_agent = 1
    /\ doc_built = 1
    /\ calls = 2
    /\ resets = 0
    /\ resetAt = 0
    /\ builtAtReset = 0
    /\ agent = [t \in Threads |-> IF t = 1 THEN 1 ELSE None]
    /\ thread_id = [t \in Threads |-> "t1"]
    /\ message = [t \in Threads |-> "hello"]
    /\ callNo = [t \in Threads |-> IF t = 1 THEN 2 ELSE 0]
    /\ result = [t \in Threads |-> NoResult]
    /\ streaming = [t \in Threads |-> FALSE]
    /\ events = [t \in Threads |-> <<>>]
    /\ use_memory = [t \in Threads |-> TRUE]
    /\ req = [r \in Requests |-> NoRequest]
    /\ files = {}
    /\ auth = NoAuth
    /\ \E i \in DOMAIN Specialists :
         \E input \in NodeInputs(Specialists[i]) :
            LET node == Specialists[i]
                document == node = "document_agent"
            IN /\ pc = [t \in Threads |->
                          IF t # 1 THEN "idle"
                          ELSE IF document THEN "document_invoke" ELSE "video_agent"]
               /\ docRef = [t \in Threads |-> IF t = 1 /\ document THEN 1 ELSE None]
               /\ st = [t \in Threads |-> IF t = 1 THEN input ELSE FreshState]
               /\ loaded = [t \in Threads |-> IF t = 1 THEN input ELSE FreshState]
               /\ store = <<[id \in ThreadIds |-> IF id = "t1" THEN input ELSE FreshState]>>
               /\ trace = [t \in Threads |->
                             IF t # 1 THEN NoTrace
                             ELSE [raw |-> node, execs |-> IF document THEN 1 ELSE 0,
                                   outcome |-> ""]]

NextNode == \E t \in Threads : DocumentAgentInvoke(t) \/ VideoAgent(t)

SpecNode == InitNode /\ [][NextNode]_vars

\* ------------------------------------------------------ document endpoints
Endpoints == {"ocr", "tables"}
Sources == {"file_base64", "bad_base64", "file_url", "file_path", "none"}
ToolOutcomes == {"success", "failure", "raises"}

Outcome(status, temp_file, deleted, scheduled, raised) ==
    [status |-> status, temp_file |-> temp_file, deleted |-> deleted,
     scheduled |-> scheduled, raised |-> raised]

\* The part of both endpoints after the file to process is known: the tool is
\* called, the cleanup is scheduled as a background task, and an unsuccessful
\* result is raised as HTTP 500; an exception of the tool is caught and the
\* temporary file is removed on the spot.
Process(temp_file, outcome) ==
    CASE outcome = "raises" -> Outcome(500, temp_file, temp_file, FALSE, TRUE)
      [] outcome = "failure" -> Outcome(500, temp_file, FALSE, temp_file, TRUE)
      [] outcome = "success" -> Outcome(200, temp_file, FALSE, temp_file, FALSE)

\* ocr_endpoint
OcrEndpoint(source, available, exists, outcome) ==
    IF ~available THEN Outcome(503, FALSE, FALSE, FALSE, TRUE)
    ELSE CASE source = "file_base64" -> Process(TRUE, outcome)
           [] source = "bad_base64" -> Outcome(500, FALSE, FALSE, FALSE, TRUE)
           [] source = "file_url" -> Outcome(501, FALSE, FALSE, FALSE, TRUE)
           [] source = "file_path" ->
                  IF exists THEN Process(FALSE, outcome)
                  ELSE Outcome(404, FALSE, FALSE, FALSE, TRUE)
           [] source = "none" -> Outcome(400, FALSE, FALSE, FALSE, TRUE)

\* extract_tables_endpoint: no branch for file_url, no test that the path
\* exists.
ExtractTablesEndpoint(source, available, exists, outcome) ==
    IF ~available THEN Outcome(503, FALSE, FALSE, FALSE, TRUE)
    ELSE CASE source = "file_base64" -> Process(TRUE, outcome)
           [] source = "bad_base64" -> Outcome(500, FALSE, FALSE, FALSE, TRUE)
           [] source = "file_path" -> Process(FALSE, outcome)
           [] source \in {"file_url", "none"} -> Outcome(400, FALSE, FALSE, FALSE, TRUE)

\* The background tasks of a request run after its response has been sent,
\* and only when the endpoint returned the response: the response of a raised
\* HTTPException is built by the exception handler and carries no tasks.
ResponseTasks(out) == out.scheduled /\ ~out.raised

\* One request to /ocr or /tables, from its receipt to its response.
HandleRequest(r) ==
    /\ req[r].state = "none"
    /\ \E endpoint \in Endpoints, source \in Sources, available \in BOOLEAN,
          exists \in BOOLEAN, outcome \in ToolOutcomes :
         LET out == IF endpoint = "ocr"
                    THEN OcrEndpoint(source, available, exists, outcome)
                    ELSE ExtractTablesEndpoint(source, available, exists, outcome)
         IN /\ req' = [req EXCEPT ![r] =
                          [state |-> "responded", endpoint |-> endpoint,
                           status |-> out.status, temp_file |-> out.temp_file,
                           background |-> ResponseTasks(out)]]
            /\ files' = IF out.temp_file /\ ~out.deleted
                        THEN files \cup {r} ELSE files
    /\ UNCHANGED <<shared, locals, auth>>

\* The response has been sent: its background tasks run (cleanup_temp_file).
RunBackgroundTasks(r) ==
    /\ req[r].state = "responded"
    /\ req' = [req EXCEPT ![r].state = "finished", ![r].background = FALSE]
    /\ files' = IF req[r].background THEN files \ {r} ELSE files
    /\ UNCHANGED <<shared, locals, auth>>

NextDocs == \E r \in Requests : HandleRequest(r) \/ RunBackgroundTasks(r)

SpecDocs == Init /\ [][NextDocs]_vars

\* ---------------------------------------------------------- authentication
\* settings.ADMIN_USERNAME, settings.PUBLIC_PATHS; the values a request, a
\* login and the settings can carry ("" is an absent header or setting).
ADMIN_USERNAME == "admin"
PUBLIC_PATHS == {"/health"}
Paths == {"/health", "/api/v1/agent/chat"}
Tokens == {"", "jwt-admin", "jwt-ghost", "jwt-nosub", "jwt-bad"}
ApiKeys == {"", "key-1", "key-2"}
Usernames == {"admin", "ghost"}
Passwords == {"admin123", "secret", "wrong"}

GetPasswordHash(password) == "bcrypt:" \o password
VerifyPassword(plain_password, hashed_password) ==
    hashed_password = GetPasswordHash(plain_password)

\* decode_token: the payload of a token with a valid signature, None otherwise.
Payload(valid, has_sub, sub) == [valid |-> valid, has_sub |-> has_sub, sub |-> sub]
DecodeToken(token) ==
    CASE token = "jwt-admin" -> Payload(TRUE, TRUE, "admin")
      [] token = "jwt-ghost" -> Payload(TRUE, TRUE, "ghost")
      [] token = "jwt-nosub" -> Payload(TRUE, FALSE, "")
      [] OTHER -> Payload(FALSE, FALSE, "")

\* get_user_from_db: only the admin user exists; without a configured hash
\* the hash of the development password is used.
UserInDB(found, username, password_hash) ==
    [found |-> found, username |-> username, password_hash |-> password_hash]
GetUserFromDb(settings, username) ==
    IF username = ADMIN_USERNAME
    THEN UserInDB(TRUE, ADMIN_USERNAME,
                  IF settings.ADMIN_PASSWORD_HASH # ""
                  THEN settings.ADMIN_PASSWORD_HASH
                  ELSE GetPasswordHash("admin123"))
    ELSE UserInDB(FALSE, "", "")

\* authenticate_user: the user's name, or "" for None.
AuthenticateUser(settings, username, password) ==
    LET user == GetUserFromDb(settings, username)
    IN IF ~user.found THEN ""
       ELSE IF ~VerifyPassword(password, user.password_hash) THEN ""
       ELSE user.username

Authenticated(user) == [status |-> 200, user |-> user]
Unauthorized == [status |-> 401, user |-> ""]

\* get_current_user
GetCurrentUser(settings, path, token) ==
    LET payload == DecodeToken(token)
    IN IF path \in PUBLIC_PATHS THEN Authenticated("anonymous")
       ELSE IF ~settings.AUTH_ENABLED THEN Authenticated("dev_user")
       ELSE IF token = "" THEN Unauthorized
       ELSE IF ~payload.valid THEN Unauthorized
       ELSE IF ~payload.has_sub THEN Unauthorized
       ELSE IF ~GetUserFromDb(settings, payload.sub).found THEN Unauthorized
       ELSE Authenticated(GetUserFromDb(settings, payload.sub).username)

\* verify_api_key
VerifyApiKey(settings, path, api_key) ==
    IF path \in PUBLIC_PATHS THEN Authenticated("public")
    ELSE IF ~settings.AUTH_ENABLED THEN Authenticated("auth_disabled")
    ELSE IF api_key = "" THEN Unauthorized
    ELSE IF settings.API_KEY # "" /\ api_key = settings.API_KEY
    THEN Authenticated(api_key)
    ELSE Unauthorized

\* require_auth: the JWT first, then the API key, then 401.
RequireAuthJwtOnly(settings, path, token, api_key) ==
    GetCurrentUser(settings, path, token)
RequireAuth(settings, path, token, api_key) ==
    IF path \in PUBLIC_PATHS THEN Authenticated("anonymous")
    ELSE IF ~settings.AUTH_ENABLED THEN Authenticated("dev_user")
    ELSE IF token # "" /\ GetCurrentUser(settings, path, token).status = 200
    THEN GetCurrentUser(settings, path, token)
    ELSE IF api_key # "" /\ VerifyApiKey(settings, path, api_key).status = 200
    THEN Authenticated("api_key_user")
    ELSE Unauthorized

\* The settings are read from the environment at start-up.
LoadSettings(enabled, key, hash) ==
    /\ ~auth.loaded
    /\ auth' = [auth EXCEPT !.loaded = TRUE, !.AUTH_ENABLED = enabled,
                            !.API_KEY = key, !.ADMIN_PASSWORD_HASH = hash]
    /\ UNCHANGED <<shared, locals, req, files>>

\* A request reaches an endpoint that depends on require_auth.
RequireAuthCall(path, token, api_key) ==
    /\ auth.loaded
    /\ LET out == RequireAuth(auth, path, token, api_key)
       IN auth' = [auth EXCEPT !.call = "require_auth", !.path = path,
                               !.token = token, !.api_key = api_key,
                               !.username = "", !.password = "",
                               !.status = out.status, !.user = out.user]
    /\ UNCHANGED <<shared, locals, req, files>>

\* A login calls authenticate_user(username, password).
AuthenticateUserCall(username, password) ==
    /\ auth.loaded
    /\ auth' = [auth EXCEPT !.call = "authenticate_user", !.path = "",
                            !.token = "", !.api_key = "",
                            !.username = username, !.password = password,
                            !.status = 0,
                            !.user = AuthenticateUser(auth, username, password)]
    /\ UNCHANGED <<shared, locals, req, files>>

NextAuth ==
    \/ \E enabled \in BOOLEAN, key \in ApiKeys \ {"key-2"},
          hash \in {"", GetPasswordHash("secret")} : LoadSettings(enabled, key, hash)
    \/ \E path \in Paths, token \in Tokens, api_key \in ApiKeys :
          RequireAuthCall(path, token, api_key)
    \/ \E username \in Usernames, password \in Passwords :
          AuthenticateUserCall(username, password)

SpecAuth == Init /\ [][NextAuth]_vars

\* ================================================================ claims
IsPrefix(a, b) == Len(a) <= Len(b) /\ SubSeq(b, 1, Len(a)) = a
Range(s) == {s[i] : i \in DOMAIN s}

\* What a load of the thread's state returns: the checkpoint held by the
\* current system, or nothing when there is no system.
Load(id) ==
    IF multi_agent_system = None THEN FreshState ELSE store[multi_agent_system][id]

Returned(t) == pc[t] = "done" /\ result[t].kind = "response"
Stored(t) == store[agent[t]][thread_id[t]]

\* C1 (P1, append-only transcript): over any sequence of invoke calls, every
\* step leaves the stored transcript of every conversation a prefix of the new
\* one: it never shrinks and no message already in it changes content or place.
C1_AppendOnly ==
    [][\A id \in ThreadIds :
          multi_agent_system' # None =>
              IsPrefix(Load(id).messages, Load(id)'.messages)]_vars

C1_Witness ==
    \E id \in ThreadIds : Len(Load(id).messages) >= 4

\* C2 (P2, single dispatch): a call never runs more than one executor, and a
\* call that returns ran none exactly when the classifier's decision was FINISH.
C2_SingleDispatch ==
    \A t \in Threads :
        /\ trace[t].execs <= 1
        /\ Returned(t) => (trace[t].execs = 0 <=> st[t].next_agent = "FINISH")

C2_Witness ==
    \E t \in Threads : Returned(t) /\ trace[t].execs = 1

\* C3: when the classifier fails, the stored state of the conversation equals
\* the state it had before the call (the user message is not in it).
C3_FailedRoutingLeavesStore ==
    \A t \in Threads :
        (pc[t] = "done" /\ result[t] = Raised("ClassifierUnavailable"))
            => Stored(t) = loaded[t]

\* C4: when the document agent's internal run raises, the call still returns:
\* exactly one assistant message reporting the failure follows the user message,
\* it is what invoke returns, and it is in the stored transcript.
C4_ExecutionFailureAnswers ==
    \A t \in Threads :
        (pc[t] = "done" /\ trace[t].outcome = "exception") =>
            /\ result[t].kind = "response"
            /\ st[t].messages =
                   loaded[t].messages
                   \o <<HumanMessage(message[t], callNo[t]),
                        AIMessage("Document processing error", callNo[t])>>
            /\ result[t].value = "Document processing error"
            /\ Stored(t).messages = st[t].messages

C4_Witness ==
    \E t \in Threads : pc[t] = "done" /\ trace[t].outcome = "exception"

\* C5 (P3, registry singleton): each lazily built singleton is constructed once
\* (once per reset for the system) and every caller holds the same instance.
C5_ConstructedOnce ==
    /\ doc_built <= 1
    /\ built <= resets + 1
    /\ \A t, u \in Threads :
          (docRef[t] # None /\ docRef[u] # None) => docRef[t] = docRef[u]

\* C6: no turn is lost: the user message and the response of every call that
\* has returned are in the stored transcript of its conversation.
C6_NoTurnLost ==
    \A t \in Threads :
        Returned(t) =>
            \A i \in DOMAIN st[t].messages :
                st[t].messages[i].id \in {2 * callNo[t] - 1, 2 * callNo[t]}
                    => st[t].messages[i] \in Range(Stored(t).messages)

\* C7 (P4, reset idempotence): a call made after a reset starts from a state
\* holding nothing older than the reset, and a reset that follows a reset
\* changes nothing.
C7_LoadFreshAfterReset ==
    \A t \in Threads :
        (resets > 0 /\ callNo[t] > resetAt) =>
            \A i \in DOMAIN loaded[t].messages :
                loaded[t].messages[i].id > 2 * resetAt

C7_SecondResetChangesNothing ==
    (resets' = resets + 1 /\ resets > 0 /\ resetAt = calls) =>
        UNCHANGED <<multi_agent_system, built, store, document_agent, doc_built, locals>>

C7_ResetIdempotent ==
    []C7_LoadFreshAfterReset /\ [][C7_SecondResetChangesNothing]_vars

C7_Witness ==
    \E t \in Threads :
        /\ resets = 2
        /\ callNo[t] > resetAt
        /\ pc[t] = "supervisor"
        /\ built = 2
        /\ store[1][thread_id[t]].messages # <<>>
        /\ loaded[t] = FreshState

C9_ContextOnlyMerged ==
    [][\A s \in 1..built : \A id \in ThreadIds :
          \A k \in DOMAIN store[s][id].context :
              k \in DOMAIN store'[s][id].context]_vars

\* C10: a call that returns gives the content of an assistant message produced
\* in this call, the last message of the resulting state.
C10_ReturnsAssistantMessage ==
    \A t \in Threads :
        Returned(t) =>
            /\ Last(st[t].messages).role = "assistant"
            /\ Last(st[t].messages).id = 2 * callNo[t]
            /\ result[t].value = Last(st[t].messages).content

\* chat_with_agent: routed_to of the response.
RoutedTo(t) == st[t].current_agent

\* The executor a call ran, from what the run recorded.
ExecutorRun(t) ==
    IF trace[t].outcome = "placeholder" THEN "video_agent" ELSE "document_agent"

\* C11: the routed_to a call reports is the tag of the executor that ran in
\* the call, whichever return path the executor took.
C11_RoutedToExecutor ==
    \A t \in Threads :
        (Returned(t) /\ trace[t].execs = 1) =>
            RoutedTo(t) = ExecutorRun(t)

C11_Witness ==
    \E t \in Threads :
        Returned(t) /\ trace[t].execs = 1 /\ trace[t].outcome = "exception"

\* C12: a stream holds at most one terminal event (done or error), a terminal
\* event is the last event of the stream, and the stream of a request that has
\* ended holds exactly one.
Terminals(ev) == {i \in DOMAIN ev : ev[i].type \in TerminalTypes}

C12_OneTerminalLast ==
    \A t \in Threads :
        streaming[t] =>
            /\ Cardinality(Terminals(events[t])) <= 1
            /\ \A i \in Terminals(events[t]) : i = Len(events[t])
            /\ pc[t] = "done" <=> Terminals(events[t]) # {}

C12_Witness ==
    \E t \in Threads :
        /\ streaming[t]
        /\ pc[t] = "done"
        /\ Len(events[t]) >= 3
        /\ Last(events[t]).type = "error"

\* C13: a call that has reached the document agent's run eventually returns.
C13_EveryInvokeReturns ==
    \A t \in Threads : (pc[t] = "document_invoke") ~> (pc[t] = "done")

\* C14: a call with an empty message ends with InvalidInput, the classifier
\* has not run in it and the stored state is the one the call found.
C14_EmptyMessageRejected ==
    \A t \in Threads :
        (InFlight(t) /\ message[t] = "") =>
            /\ trace[t].raw = ""
            /\ trace[t].execs = 0
            /\ pc[t] = "done" => result[t] = Raised("InvalidInput")
            /\ agent[t] # None => Stored(t) = loaded[t]

\* C15: the system a call gets is the cached one, it was constructed after the
\* last reset, and at most one system has been constructed since that reset.
C15_ResetForcesConstruction ==
    /\ built <= builtAtReset + 1
    /\ \A t \in Threads :
          agent[t] # None =>
              /\ agent[t] = multi_agent_system
              /\ agent[t] > builtAtReset

C15_Witness ==
    \E t \in Threads :
        /\ resets >= 1
        /\ builtAtReset = 1
        /\ agent[t] = 2
        /\ callNo[t] = 2

PlaceholderTexts(request) ==
    {"Video Agent - Phase 2 > " \o request \o " | " \o provider :
        provider \in {"Groq Llama 3.2 Vision (~50ms)", "GPT-4o (fallback)"}}

Rank(p) ==
    CASE p = "idle" -> 0
      [] p = "create_multi_agent_system" -> 1
      [] p = "return_system" -> 2
      [] p = "agent_invoke" -> 3
      [] p = "supervisor" -> 4
      [] p \in {"document_agent", "video_agent"} -> 5
      [] p = "create_document_agent" -> 6
      [] p = "document_invoke" -> 7
      [] p = "done" -> 8

C18_DepthOne ==
    [][\A t \in Threads :
          pc'[t] # pc[t] =>
              /\ pc[t] # "done" => Rank(pc'[t]) > Rank(pc[t])
              /\ pc'[t] = "supervisor" => pc[t] = "agent_invoke"
              /\ pc[t] = "done" => (pc'[t] = "idle" /\ store' = store)]_vars

C18_Witness ==
    \E t \in Threads :
        Returned(t) /\ trace[t].execs = 1 /\ trace[t].raw \in Range(Specialists)

\* C19 (as stated): the stored next_agent of a conversation changes only in a
\* classifier step.
NextAgentChanged(s, id) == store'[s][id].next_agent # store[s][id].next_agent

C19_OnlyClassifierWrites ==
    [][\A s \in 1..built : \A id \in ThreadIds :
          NextAgentChanged(s, id) => \E t \in Threads : pc[t] = "supervisor"]_vars

\* C19 (amended): next_agent changes only in a classifier step or when the
\* initial state of a call resets it to the empty string; no step of an
\* executor changes it.
C19_ClassifierOrInputWrites ==
    [][/\ \A s \in 1..built : \A id \in ThreadIds :
             NextAgentChanged(s, id) =>
                 \E t \in Threads :
                     \/ pc[t] = "supervisor"
                     \/ pc[t] = "agent_invoke" /\ store'[s][id].next_agent = ""
       /\ \A t \in Threads :
             pc[t] \in {"document_agent", "create_document_agent",
                        "document_invoke", "video_agent"}
                 => st'[t].next_agent = st[t].next_agent]_vars

C19_Witness ==
    \E t \in Threads :
        /\ Returned(t)
        /\ trace[t].execs = 1
        /\ loaded[t].next_agent = "video_agent"
        /\ Stored(t).next_agent = "document_agent"

Positions ==
    {"idle", "create_multi_agent_system", "return_system", "agent_invoke",
     "supervisor", "document_agent", "create_document_agent", "document_invoke",
     "video_agent", "done"}

OwnKey(node) == IF node = "video_agent" THEN "video_result" ELSE "document_result"

\* C21: a specialist's run appends exactly one message, an assistant message,
\* to the messages it was called with, on every return path (no input
\* messages, success, caught failure).
C21_OneResponseMessage ==
    \A t \in Threads :
        (pc[t] = "done" /\ trace[t].outcome # "") =>
            /\ result[t].kind = "response"
            /\ Len(st[t].messages) = Len(loaded[t].messages) + 1
            /\ IsPrefix(loaded[t].messages, st[t].messages)
            /\ Last(st[t].messages).role = "assistant"

C21_Witness ==
    \E t \in Threads :
        /\ pc[t] = "done"
        /\ trace[t].outcome = "ai"
        /\ loaded[t].messages = <<>>
        /\ Len(st[t].messages) = 1

\* C22: from the load of a call until its end, and after a call that ended in
\* an error, the stored state of the conversation is the state the call loaded.
AfterLoad(t) ==
    \/ pc[t] \in {"supervisor", "document_agent", "create_document_agent",
                  "document_invoke", "video_agent"}
    \/ pc[t] = "done" /\ result[t].kind = "error" /\ agent[t] # None

C22_StoreWrittenAtEnd ==
    \A t \in Threads : AfterLoad(t) => Stored(t) = loaded[t]

\* C23: a specialist's run leaves task_type and next_agent as they were, and
\* every context key other than its own keeps its value; it adds no key other
\* than its own.
C23_OwnNamespaceOnly ==
    \A t \in Threads :
        (pc[t] = "done" /\ trace[t].outcome # "") =>
            /\ st[t].task_type = loaded[t].task_type
            /\ st[t].next_agent = loaded[t].next_agent
            /\ DOMAIN st[t].context \subseteq
                   DOMAIN loaded[t].context \cup {OwnKey(trace[t].raw)}
            /\ \A k \in DOMAIN loaded[t].context \ {OwnKey(trace[t].raw)} :
                   k \in DOMAIN st[t].context
                       /\ st[t].context[k] = loaded[t].context[k]

C23_Witness ==
    \E t \in Threads :
        /\ pc[t] = "done"
        /\ trace[t].outcome = "ai"
        /\ DOMAIN loaded[t].context = {"video_result"}
        /\ DOMAIN st[t].context = {"video_result", "document_result"}

\* C24: a reset leaves every conversation but one as it was: for some id,
\* what a load returns for every other id is the same before and after.
C24_ResetLeavesOthers ==
    [][resets' = resets + 1 =>
          \E id \in ThreadIds :
              \A j \in ThreadIds \ {id} : Load(j)' = Load(j)]_vars

\* C25: when two calls on different conversations have both returned and no
\* reset was made, the user message and the response of each are in the
\* transcript a load of its conversation returns.
C25_ConversationsIsolated ==
    \A t, u \in Threads :
        (/\ resets = 0
         /\ Returned(t) /\ Returned(u)
         /\ thread_id[t] # thread_id[u]) =>
            \A i \in DOMAIN st[t].messages :
                st[t].messages[i] \in Range(Load(thread_id[t]).messages)

\* C26: a failed construction of the document agent is not cached: the global
\* stays None, the caller gets the error, and every instance a caller holds is
\* one that was constructed.
C26_FailureNotCached ==
    /\ document_agent \in {None} \cup 1..doc_built
    /\ \A t \in Threads :
          /\ docRef[t] # None => docRef[t] \in 1..doc_built
          /\ trace[t].outcome = "no_llm_key" =>
                 (document_agent = None /\ result[t] = Raised("ValueError"))

\* A second call that got a constructed document agent after the first call
\* was routed to the document agent and ended in the construction's error.
C26_Witness ==
    \E t \in Threads :
        /\ callNo[t] = 2
        /\ Len(loaded[t].messages) = 1
        /\ loaded[t].next_agent = "document_agent"
        /\ loaded[t].current_agent = "supervisor"
        /\ docRef[t] = 1
        /\ pc[t] = "document_invoke"

\* C28: the message events of a stream carry only messages produced in the
\* call, each once: there are no more message events than assistant messages
\* of the call, and none carries the user's own message.
MessageEventsOf(ev) == {i \in DOMAIN ev : ev[i].type = "message"}
ProducedInCall(t) == {i \in DOMAIN st[t].messages : st[t].messages[i].id = 2 * callNo[t]}

C28_EventsIncremental ==
    \A t \in Threads :
        streaming[t] =>
            /\ Cardinality(MessageEventsOf(events[t])) <= Cardinality(ProducedInCall(t))
            /\ \A i \in MessageEventsOf(events[t]) :
                   \E j \in ProducedInCall(t) :
                       events[t][i].data = st[t].messages[j].content

\* C27: between resets every call of get_multi_agent_system returns the one
\* system built by the first call after the reset, whatever its use_memory
\* argument; the memory setting of a system is the argument of the call that
\* built it and never changes.
C27_SameSystemReturned ==
    \A t \in Threads :
        (pc[t] = "done" /\ result[t] = Got) =>
            /\ agent[t] = multi_agent_system
            /\ agent[t] = builtAtReset + 1
            /\ built = builtAtReset + 1

C27_SettingNeverChanges ==
    /\ \A s \in 1..built : memory'[s] = memory[s]
    /\ built' # built =>
           \E t \in Threads :
               /\ pc[t] = "create_multi_agent_system"
               /\ multi_agent_system = None
               /\ memory'[built'] = use_memory[t]

C27_MemoryFixedByFirstCall ==
    []C27_SameSystemReturned /\ [][C27_SettingNeverChanges]_vars

C27_Witness ==
    \E t \in Threads :
        /\ pc[t] = "done"
        /\ result[t] = Got
        /\ use_memory[t] # memory[agent[t]]

\* C29: when a request has ended (its response was sent and its background
\* tasks have run) the temporary file it created does not exist.
C29_TempFileDeleted ==
    \A r \in Requests : req[r].state = "finished" => r \notin files

\* C30: with authentication enabled and a path that is not public, require_auth
\* returns a user exactly when the JWT decodes to a known user or the API key
\* equals the configured one; an accepted JWT decides the user, a rejected one
\* falls through to the API key, and otherwise the answer is 401.
\* authenticate_user returns the user exactly when the username is known and
\* the password verifies.
JwtAccepted ==
    /\ DecodeToken(auth.token).valid
    /\ DecodeToken(auth.token).has_sub
    /\ DecodeToken(auth.token).sub = ADMIN_USERNAME

ApiKeyAccepted ==
    auth.api_key # "" /\ auth.API_KEY # "" /\ auth.api_key = auth.API_KEY

PasswordExpected ==
    IF auth.ADMIN_PASSWORD_HASH = "" THEN "admin123" ELSE "secret"

C30_AuthOnlyWithCredentials ==
    /\ (auth.call = "require_auth" /\ auth.AUTH_ENABLED
            /\ auth.path \notin PUBLIC_PATHS) =>
           /\ auth.status \in {200, 401}
           /\ auth.status = 200 <=> (JwtAccepted \/ ApiKeyAccepted)
           /\ JwtAccepted => auth.user = ADMIN_USERNAME
           /\ (~JwtAccepted /\ ApiKeyAccepted) => auth.user = "api_key_user"
           /\ auth.status = 401 => auth.user = ""
    /\ auth.call = "authenticate_user" =>
           /\ auth.user \in {"", auth.username}
           /\ auth.user # "" <=>
                  (auth.username = ADMIN_USERNAME /\ auth.password = PasswordExpected)

C30_Witness ==
    /\ auth.call = "require_auth"
    /\ auth.AUTH_ENABLED
    /\ auth.path \notin PUBLIC_PATHS
    /\ auth.token = "jwt-bad"
    /\ auth.api_key = "key-1"
    /\ auth.status = 200
    /\ auth.user = "api_key_user"
====
